---- MODULE Spec2Model ----
(***************************************************************************)
(* Model of raven-go's http.go: the request snapshot builder NewHttp, the  *)
(* redaction of secret fields (sanitizeValues, AddSanitizeField) and the   *)
(* two panic-intercepting wrappers RecoveryHandler and ReportHandler.      *)
(*                                                                         *)
(* A Go string is modelled as a sequence of one-character strings, so that *)
(* lowercasing, substring search, splitting and joining are computed.      *)
(***************************************************************************)
EXTENDS Integers, Sequences, FiniteSets, TLC

\* ------------------------------------------------------------------ strings

Uppers == <<"A","B","C","D","E","F","G","H","I","J","K","L","M",
            "N","O","P","Q","R","S","T","U","V","W","X","Y","Z">>
Lowers == <<"a","b","c","d","e","f","g","h","i","j","k","l","m",
            "n","o","p","q","r","s","t","u","v","w","x","y","z">>

\* the characters of the model in byte order (Go compares strings by bytes)
Ascii == <<" ","%","&","*","+",",","-",".","/","0","1","2","3","4","5","6","7","8","9",
           ":","<","=",">","A","B","C","D","E","F","G","H","I","J","K","L","M","N","O",
           "P","Q","R","S","T","U","V","W","X","Y","Z","[","]","_",
           "a","b","c","d","e","f","g","h","i","j","k","l","m","n","o","p","q",
           "r","s","t","u","v","w","x","y","z">>

Chars == {Ascii[i] : i \in 1..Len(Ascii)}

\* unicode.ToLower, as a table over the characters of the model
LowerOf ==
    [c \in Chars |->
        IF \E i \in 1..Len(Uppers) : Uppers[i] = c
        THEN Lowers[CHOOSE i \in 1..Len(Uppers) : Uppers[i] = c]
        ELSE c]

ToLowerChar(c) == LowerOf[c]

\* strings.ToLower
ToLower(s) == [i \in 1..Len(s) |-> ToLowerChar(s[i])]

\* strings.Index(s, substr): the first 0-based offset of substr in s, or -1
Index(s, substr) ==
    LET hits == {i \in 0..(Len(s) - Len(substr)) :
                    SubSeq(s, i + 1, i + Len(substr)) = substr}
    IN  IF hits = {} THEN -1 ELSE CHOOSE i \in hits : \A j \in hits : i <= j

\* strings.LastIndex for a one-character separator, or -1
LastIndex(s, c) ==
    LET hits == {i \in 0..(Len(s) - 1) : s[i + 1] = c}
    IN  IF hits = {} THEN -1 ELSE CHOOSE i \in hits : \A j \in hits : j <= i

\* strings.Contains
Contains(s, substr) ==
    \E i \in 0..(Len(s) - Len(substr)) : SubSeq(s, i + 1, i + Len(substr)) = substr

\* strings.Join
RECURSIVE Join(_, _)
Join(elems, sep) ==
    IF Len(elems) = 0 THEN <<>>
    ELSE IF Len(elems) = 1 THEN elems[1]
    ELSE elems[1] \o sep \o Join(Tail(elems), sep)

\* strings.Split for a one-character separator
RECURSIVE Split(_, _)
Split(s, c) ==
    LET i == Index(s, <<c>>)
    IN  IF i < 0 THEN <<s>>
        ELSE <<SubSeq(s, 1, i)>> \o Split(SubSeq(s, i + 2, Len(s)), c)

\* ------------------------------------------------------- redaction rule set

\* the placeholder []string{"********"} writes
Stars == <<"*","*","*","*","*","*","*","*">>

\* the initial value of querySecretFields
SeedFields ==
    << <<"p","a","s","s","w","o","r","d">>,
       <<"p","a","s","s","p","h","r","a","s","e">>,
       <<"p","a","s","s","w","d">>,
       <<"s","e","c","r","e","t">> >>

\* a comparison that lowercases the field name only
MatchesFieldLowered(field, keyword) == Contains(ToLower(field), keyword)

\* the condition of the if in sanitizeValues
Matches(field, keyword) == Contains(ToLower(field), ToLower(keyword))

\* a redaction that replaces the values of a matching field one by one
SanitizeKeywordElementwise(query, keyword) ==
    [field \in DOMAIN query |->
        IF Matches(field, keyword)
        THEN [i \in 1..Len(query[field]) |-> Stars]
        ELSE query[field]]

\* a redaction that puts the placeholder in front of the values it should replace
SanitizeKeywordPrepend(query, keyword) ==
    [field \in DOMAIN query |->
        IF Matches(field, keyword) THEN <<Stars>> \o query[field] ELSE query[field]]

\* one pass of the outer loop of sanitizeValues: keyword against every field
SanitizeKeyword(query, keyword) ==
    [field \in DOMAIN query |->
        IF Matches(field, keyword) THEN <<Stars>> ELSE query[field]]

\* sanitizeValues: the keywords in order, each applied to the map the
\* previous one left; the map it returns is the map it was given
RECURSIVE sanitizeFrom(_, _, _)
sanitizeFrom(query, fields, i) ==
    IF i > Len(fields) THEN query
    ELSE sanitizeFrom(SanitizeKeyword(query, fields[i]), fields, i + 1)

sanitizeValues(query, fields) == sanitizeFrom(query, fields, 1)

\* a registration that overwrites the last entry instead of growing the slice
OverwriteLastField(fields, field) == [fields EXCEPT ![Len(fields)] = field]

\* the slice AddSanitizeField stores
AppendField(fields, field) == Append(fields, field)

\* ------------------------------------------------------- net/url, net, http

\* the position of a byte in the order of bytes
OrdOf == [c \in Chars |-> CHOOSE i \in 1..Len(Ascii) : Ascii[i] = c]

Ord(c) == OrdOf[c]

\* a < b as Go compares strings
RECURSIVE StrLess(_, _)
StrLess(a, b) ==
    IF Len(b) = 0 THEN FALSE
    ELSE IF Len(a) = 0 THEN TRUE
    ELSE IF a[1] = b[1] THEN StrLess(Tail(a), Tail(b))
    ELSE Ord(a[1]) < Ord(b[1])

\* the keys of a map, sorted (url.Values.Encode sorts before writing)
RECURSIVE SortedKeys(_)
SortedKeys(S) ==
    IF S = {} THEN <<>>
    ELSE LET m == CHOOSE x \in S : \A y \in S \ {x} : StrLess(x, y)
         IN  <<m>> \o SortedKeys(S \ {m})

\* url.QueryEscape: letters, digits and - _ . ~ stay, a space becomes +,
\* anything else becomes %XX; of the characters here only * and = are escaped
RECURSIVE QueryEscape(_)
QueryEscape(s) ==
    IF Len(s) = 0 THEN <<>>
    ELSE (CASE s[1] = "*" -> <<"%","2","A">>
            [] s[1] = "=" -> <<"%","3","D">>
            [] s[1] = " " -> <<"+">>
            [] OTHER -> <<s[1]>>) \o QueryEscape(Tail(s))

\* url.QueryUnescape, for the escapes QueryEscape writes
RECURSIVE QueryUnescape(_)
QueryUnescape(s) ==
    IF Len(s) = 0 THEN <<>>
    ELSE IF Len(s) >= 3 /\ SubSeq(s, 1, 3) = <<"%","2","A">>
         THEN <<"*">> \o QueryUnescape(SubSeq(s, 4, Len(s)))
    ELSE IF Len(s) >= 3 /\ SubSeq(s, 1, 3) = <<"%","3","D">>
         THEN <<"=">> \o QueryUnescape(SubSeq(s, 4, Len(s)))
    ELSE IF s[1] = "+" THEN <<" ">> \o QueryUnescape(Tail(s))
    ELSE <<s[1]>> \o QueryUnescape(Tail(s))

\* the map with key k holding the list vs, the other keys as in m
MapPut(m, k, vs) ==
    [x \in DOMAIN m \cup {k} |-> IF x = k THEN vs ELSE m[x]]

EmptyMap == [x \in {} |-> <<>>]

\* url.ParseQuery over the pieces between the & signs: an empty piece is
\* skipped, the piece is cut at its first =, and the value is appended to
\* the list of its key
RECURSIVE ParsePieces(_, _)
ParsePieces(pieces, m) ==
    IF Len(pieces) = 0 THEN m
    ELSE LET piece == pieces[1]
             eq    == Index(piece, <<"=">>)
             key   == QueryUnescape(IF eq < 0 THEN piece ELSE SubSeq(piece, 1, eq))
             value == QueryUnescape(IF eq < 0 THEN <<>>
                                    ELSE SubSeq(piece, eq + 2, Len(piece)))
         IN  IF Len(piece) = 0 THEN ParsePieces(Tail(pieces), m)
             ELSE ParsePieces(Tail(pieces),
                     MapPut(m, key,
                            (IF key \in DOMAIN m THEN m[key] ELSE <<>>) \o <<value>>))

\* req.URL.Query(): a map parsed afresh from RawQuery on every call
Query(rawQuery) == ParsePieces(Split(rawQuery, "&"), EmptyMap)

\* key=value for every value of one key, joined by &
RECURSIVE EncodeKey(_, _)
EncodeKey(key, values) ==
    IF Len(values) = 0 THEN <<>>
    ELSE LET one == QueryEscape(key) \o <<"=">> \o QueryEscape(values[1])
         IN  IF Len(values) = 1 THEN one
             ELSE one \o <<"&">> \o EncodeKey(key, Tail(values))

RECURSIVE EncodeKeys(_, _)
EncodeKeys(keys, m) ==
    IF Len(keys) = 0 THEN <<>>
    ELSE LET first == EncodeKey(keys[1], m[keys[1]])
             rest  == EncodeKeys(Tail(keys), m)
         IN  IF Len(first) = 0 THEN rest
             ELSE IF Len(rest) = 0 THEN first
             ELSE first \o <<"&">> \o rest

\* url.Values.Encode
Encode(m) == EncodeKeys(SortedKeys(DOMAIN m), m)

\* http.Header.Get for a key already in canonical form: the first value of
\* the key, "" when the key is absent or its list is empty
Get(header, key) ==
    IF key \in DOMAIN header /\ Len(header[key]) > 0 THEN header[key][1] ELSE <<>>

\* net.SplitHostPort
SplitHostPort(hostport) ==
    LET i    == LastIndex(hostport, ":")
        fail == [ok |-> FALSE, host |-> <<>>, port |-> <<>>]
        end  == Index(hostport, <<"]">>)
        brk  == Len(hostport) > 0 /\ hostport[1] = "["
        host == IF brk THEN SubSeq(hostport, 2, end) ELSE SubSeq(hostport, 1, i)
        j    == IF brk THEN 1 ELSE 0
        k    == IF brk THEN end + 1 ELSE 0
    IN  IF i < 0 THEN fail
        ELSE IF brk /\ (end < 0 \/ end + 1 # i) THEN fail
        ELSE IF ~brk /\ Contains(host, <<":">>) THEN fail
        ELSE IF Contains(SubSeq(hostport, j + 1, Len(hostport)), <<"[">>) THEN fail
        ELSE IF Contains(SubSeq(hostport, k + 1, Len(hostport)), <<"]">>) THEN fail
        ELSE [ok |-> TRUE, host |-> host, port |-> SubSeq(hostport, i + 2, Len(hostport))]

\* ------------------------------------------------------------------ NewHttp

XForwardedProto == <<"X","-","F","o","r","w","a","r","d","e","d","-","P","r","o","t","o">>
CookieKey == <<"C","o","o","k","i","e">>
Https == <<"h","t","t","p","s">>
Http == <<"h","t","t","p">>

\* a scheme test that wants both TLS and the forwarded header
ProtoBoth(r) ==
    IF r.TLS /\ Get(r.Header, XForwardedProto) = Https THEN Https ELSE Http

\* proto, lines 14-17
Proto(r) ==
    IF r.TLS \/ Get(r.Header, XForwardedProto) = Https THEN Https ELSE Http

\* the URL field, line 22
MakeURL(r) == Proto(r) \o <<":","/","/">> \o r.Host \o r.Path

\* the Cookies field, line 20
Cookies(r) == Get(r.Header, CookieKey)

\* sanitizeValues(req.URL.Query()), line 21
SanitizedQuery(r, fields) == sanitizeValues(Query(r.RawQuery), fields)

\* the Query field, line 21
QueryField(r, fields) == Encode(SanitizedQuery(r, fields))

NilEnv == [x \in {} |-> <<>>]

\* an Env that is filled in whatever SplitHostPort returned
EnvIgnoringError(r) ==
    LET sp == SplitHostPort(r.RemoteAddr)
    IN  [x \in {"REMOTE_ADDR", "REMOTE_PORT"} |->
            IF x = "REMOTE_ADDR" THEN sp.host ELSE sp.port]

\* h.Env, lines 25-27
Env(r) ==
    LET sp == SplitHostPort(r.RemoteAddr)
    IN  IF sp.ok
        THEN [x \in {"REMOTE_ADDR", "REMOTE_PORT"} |->
                 IF x = "REMOTE_ADDR" THEN sp.host ELSE sp.port]
        ELSE NilEnv

\* what sanitizeValues(req.Header) leaves in req.Header, line 29: the map it
\* is given is the request's own map, and it writes into it
HeaderAfter(r, fields) == sanitizeValues(r.Header, fields)

\* h.Headers, lines 29-31
Headers(r, fields) ==
    LET hdr == HeaderAfter(r, fields)
    IN  [k \in DOMAIN hdr |-> Join(hdr[k], <<",">>)]

\* NewHttp: the Http it returns (h), the request it leaves behind (req) and
\* the map its call sanitizeValues(req.URL.Query()) returned (query)
NewHttp(r, fields) ==
    [h     |-> [Method  |-> r.Method,
                Cookies |-> Cookies(r),
                Query   |-> QueryField(r, fields),
                URL     |-> MakeURL(r),
                Headers |-> Headers(r, fields),
                Env     |-> Env(r)],
     req   |-> [r EXCEPT !.Header = HeaderAfter(r, fields)],
     query |-> SanitizedQuery(r, fields)]

\* NewHttp when its two sanitizeValues calls ranged over different readings of
\* querySecretFields: qfields at line 21, hfields at line 29
NewHttpScans(r, qfields, hfields) ==
    [h     |-> [Method  |-> r.Method,
                Cookies |-> Cookies(r),
                Query   |-> QueryField(r, qfields),
                URL     |-> MakeURL(r),
                Headers |-> Headers(r, hfields),
                Env     |-> Env(r)],
     req   |-> [r EXCEPT !.Header = HeaderAfter(r, hfields)],
     query |-> SanitizedQuery(r, qfields)]

\* ------------------------------------------------------------ panic values

\* a Go value a handler can hand to panic, or a marker of how a call ended
Value(kind, n, s) == [kind |-> kind, n |-> n, s |-> s]

NilValue      == Value("nil", 0, <<>>)
PanicNilError == Value("PanicNilError", 0, <<>>)
\* markers: the wrapped call has not ended yet / ended without a panic
Pending       == Value("pending", 0, <<>>)
Returned      == Value("returned", 0, <<>>)

Boom == <<"b","o","o","m">>

\* what handlers panic with: nil, the string "boom", the int 42
PanicArgs == {NilValue, Value("string", 0, Boom), Value("int", 42, <<>>)}

DigitChars == <<"0","1","2","3","4","5","6","7","8","9">>

RECURSIVE Decimal(_)
Decimal(n) ==
    IF n < 10 THEN <<DigitChars[n + 1]>>
    ELSE Decimal(n \div 10) \o <<DigitChars[(n % 10) + 1]>>

\* fmt.Sprint of one value
Sprint(v) ==
    CASE v.kind = "string" -> v.s
      [] v.kind = "int" -> Decimal(v.n)
      [] v.kind = "error" -> v.s
      [] v.kind = "PanicNilError" ->
            <<"p","a","n","i","c"," ","c","a","l","l","e","d"," ","w","i","t","h"," ",
              "n","i","l"," ","a","r","g","u","m","e","n","t">>
      [] OTHER -> <<"<","n","i","l",">">>

\* the value in flight after panic(v): since Go 1.21 panic(nil) raises a
\* *runtime.PanicNilError unless the build sets GODEBUG=panicnil=1
Raise(v, legacy) ==
    IF v = NilValue /\ ~legacy THEN PanicNilError ELSE v

\* recover() in a deferred function: the value in flight, nil when the
\* goroutine is not panicking
RecoverValue(isPanicking, inflight) ==
    IF isPanicking THEN inflight ELSE NilValue

\* a deferred function that reports without testing rval
EntersPanicPathAlways(v) == TRUE

\* the rval != nil of both wrappers
EntersPanicPath(v) == v # NilValue

\* http.StatusInternalServerError
StatusInternalServerError == 500

\* ------------------------------------------------------------------ inputs

MaxAdds == 2      \* AddSanitizeField calls in one run
MaxDirect == 1    \* NewHttp calls made outside the wrappers in one run

\* fragments a program registers
Fragments ==
    { <<"C","O","O","K","I","E">>, <<"p","r","o","t","o">> }

CookieValue == <<"s","i","d","=","p","a","s","s","w","o","r","d">>

HeaderPlain ==
    [k \in {CookieKey, XForwardedProto, <<"A","c","c","e","p","t">>} |->
        IF k = CookieKey THEN <<CookieValue>>
        ELSE IF k = XForwardedProto THEN <<Https>>
        ELSE << <<"a">>, <<"b">> >>]

HeaderSecret ==
    [k \in {<<"P","a","s","s","w","o","r","d">>, <<"X","-","T","O","K","E","N">>,
            XForwardedProto} |->
        IF k = XForwardedProto THEN <<Http, Https>>
        ELSE IF k = <<"X","-","T","O","K","E","N">> THEN << <<"t","1">>, <<"t","2">> >>
        ELSE << <<"h","2">> >>]

\* PASSWORD=a&q=1&UserPassphrase=x&PASSWORD=b&token=z
RawSecret ==
    <<"P","A","S","S","W","O","R","D","=","a","&","q","=","1","&",
      "U","s","e","r","P","a","s","s","p","h","r","a","s","e","=","x","&",
      "P","A","S","S","W","O","R","D","=","b","&","t","o","k","e","n","=","z">>

Request(method, tls, header, raw, addr) ==
    [Method     |-> method,
     TLS        |-> tls,
     Host       |-> <<"h",".","i","o">>,
     Path       |-> <<"/","p">>,
     RawQuery   |-> raw,
     Header     |-> header,
     RemoteAddr |-> addr]

MethodGet == <<"G","E","T">>

\* the last request is one a caller built as a struct literal and left the
\* Method empty, which net/http reads as GET
Requests ==
    { Request(MethodGet, FALSE, HeaderPlain, <<"q","=","1">>, <<"1",".","2",":","8","0">>),
      Request(MethodGet, FALSE, HeaderSecret, RawSecret, <<"b","a","d">>),
      Request(MethodGet, TRUE, EmptyMap, <<>>, <<"[",":",":","1","]",":","8","0">>),
      Request(MethodGet, TRUE, HeaderSecret, <<>>, <<":",":","1",":","8","0">>),
      Request(<<>>, FALSE, EmptyMap, <<>>, <<"1",".","2",":","8","0">>) }

\* the wrappers around the handler, outermost first
Chains ==
    { <<"Recovery">>, <<"Report">>, <<"Recovery", "Report">> }

\* -------------------------------------------------------------------- state

VARIABLES
    querySecretFields,  \* the package variable
    req,                \* the *http.Request every wrapper and NewHttp call shares
    arrived,            \* the request as the server handed it over
    chain,              \* the wrappers installed around the handler
    pc,                 \* idle, handler, recover, snapshot, capture, writeheader, exit, done
    level,              \* the wrapper whose deferred function runs (index in chain)
    panicking,          \* a panic is in flight
    pval,               \* the value in flight
    rval,               \* rval of the running deferred function
    h,                  \* the Http the running deferred function built
    calls,              \* per wrapper: how its handler ended (arg), how it ended (out)
    packets,            \* the packets handed to Capture, in order
    status,             \* the WriteHeader calls on the response, in order
    snaps,              \* every NewHttp call: who called, the request before, the rule set, the result
    registered,         \* the arguments of the AddSanitizeField calls that returned, in order
    conc                \* the memory behind querySecretFields and the goroutines racing on it

vars == <<querySecretFields, req, arrived, chain, pc, level, panicking,
          pval, rval, h, calls, packets, status, snaps, registered, conc>>

\* the goroutines that call AddSanitizeField at the same time, and the
\* fragment each registers
ConcUnits == {"a", "b"}
UnitField == [w \in ConcUnits |->
                 IF w = "a" THEN <<"C","O","O","K","I","E">> ELSE <<"p","r","o","t","o">>]

\* what a read finds in memory that holds no entry of the slice
Torn == <<"<","t","o","r","n",">">>

\* the backing array append allocates when len = cap: twice the capacity
GrowCap(cap) == cap + cap

\* the slice header of the package variable as the initialiser leaves it
SeedHeader == [ptr |-> 1, len |-> Len(SeedFields), cap |-> Len(SeedFields)]
HeaderWords == {"ptr", "len", "cap"}

\* nothing has run yet: one backing array holding the seeds
ConcStart ==
    [arrays |-> <<SeedFields>>,
     hdr    |-> SeedHeader,
     unit   |-> [w \in ConcUnits |->
                    [pc |-> "start", hd |-> SeedHeader, new |-> SeedHeader, pending |-> {}]],
     scan   |-> [pc |-> "start", k |-> 0, i |-> 0, hd |-> SeedHeader,
                 seen |-> <<<<>>, <<>>>>, must |-> {}]]

\* the string at index i of backing array ptr; an index past the allocation
\* reads memory that is no entry
Cell(arrays, ptr, i) == IF i <= Len(arrays[ptr]) THEN arrays[ptr][i] ELSE Torn

\* the entries a reader gets that loads header hd and reads its len cells
View(arrays, hd) == [i \in 1..hd.len |-> Cell(arrays, hd.ptr, i)]

NoHttp == [Method |-> <<>>, Cookies |-> <<>>, Query |-> <<>>, URL |-> <<>>,
           Headers |-> EmptyMap, Env |-> NilEnv]

Init ==
    /\ querySecretFields = SeedFields
    /\ req \in Requests
    /\ arrived = req
    /\ chain \in Chains
    /\ pc = "idle"
    /\ level = 0
    /\ panicking = FALSE
    /\ pval = NilValue
    /\ rval = NilValue
    /\ h = NoHttp
    /\ calls = [l \in 1..Len(chain) |-> [arg |-> Pending, out |-> Pending]]
    /\ packets = <<>>
    /\ status = <<>>
    /\ snaps = <<>>
    /\ registered = <<>>
    /\ conc = ConcStart

\* AddSanitizeField(field), called by the program before it serves
AddSanitizeField(field) ==
    /\ pc = "idle"
    /\ Len(querySecretFields) < Len(SeedFields) + MaxAdds
    /\ querySecretFields' = AppendField(querySecretFields, field)
    /\ registered' = Append(registered, field)
    /\ UNCHANGED <<conc, req, arrived, chain, pc, level, panicking, pval, rval,
                   h, calls, packets, status, snaps>>

\* the record of one NewHttp call
Snap(who, r, fields, out) ==
    [who |-> who, before |-> r, fields |-> fields, h |-> out.h, after |-> out.req,
     query |-> out.query]

\* NewHttp(req) called by the program itself before the wrappers run
DirectSnapshot ==
    /\ pc = "idle"
    /\ Cardinality({i \in 1..Len(snaps) : snaps[i].who = 0}) < MaxDirect
    /\ \E out \in {NewHttp(req, querySecretFields)} :
           /\ req' = out.req
           /\ snaps' = Append(snaps, Snap(0, req, querySecretFields, out))
    /\ UNCHANGED <<conc, querySecretFields, arrived, chain, pc, level, panicking,
                   pval, rval, h, calls, packets, status, registered>>

\* the server calls the outermost wrapper; every wrapper defers its function
\* and calls the handler it wraps
Serve ==
    /\ pc = "idle"
    /\ pc' = "handler"
    /\ level' = Len(chain)
    /\ UNCHANGED <<conc, querySecretFields, req, arrived, chain, panicking, pval,
                   rval, h, calls, packets, status, snaps, registered>>

\* handler(w, r) returns
HandlerReturns ==
    /\ pc = "handler"
    /\ pc' = "recover"
    /\ calls' = [calls EXCEPT ![level].arg = Returned]
    /\ UNCHANGED <<conc, querySecretFields, req, arrived, chain, level, panicking,
                   pval, rval, h, packets, status, snaps, registered>>

\* handler(w, r) calls panic(v); legacy: the build runs panic(nil) as Go did
\* before 1.21 (GODEBUG=panicnil=1)
HandlerPanics(v, legacy) ==
    /\ pc = "handler"
    /\ pc' = "recover"
    /\ panicking' = TRUE
    /\ pval' = Raise(v, legacy)
    /\ calls' = [calls EXCEPT ![level].arg = v]
    /\ UNCHANGED <<conc, querySecretFields, req, arrived, chain, level, rval, h,
                   packets, status, snaps, registered>>

\* the deferred function starts: if rval := recover(); rval != nil
Recover ==
    /\ pc = "recover"
    /\ LET got == RecoverValue(panicking, pval)
       IN  /\ rval' = got
           /\ pc' = IF EntersPanicPath(got) THEN "snapshot" ELSE "exit"
    /\ panicking' = FALSE
    /\ UNCHANGED <<conc, querySecretFields, req, arrived, chain, level, pval, h,
                   calls, packets, status, snaps, registered>>

\* the arguments of NewPacket are evaluated: rvalStr, the exception, NewHttp(r)
Snapshot ==
    /\ pc = "snapshot"
    /\ \E out \in {NewHttp(req, querySecretFields)} :
           /\ h' = out.h
           /\ req' = out.req
           /\ snaps' = Append(snaps, Snap(level, req, querySecretFields, out))
    /\ pc' = "capture"
    /\ UNCHANGED <<conc, querySecretFields, arrived, chain, level, panicking, pval,
                   rval, calls, packets, status, registered>>

\* the packet NewPacket(rvalStr, NewException(errors.New(rvalStr), ...), NewHttp(r)) builds
NewPacket(layer, v, http) ==
    [layer |-> layer, Message |-> Sprint(v), Exception |-> Sprint(v), Http |-> http]

\* a deferred function that builds the packet and never hands it to Capture
CaptureNotCalled ==
    /\ pc = "capture"
    /\ pc' = "writeheader"
    /\ UNCHANGED <<conc, querySecretFields, req, arrived, chain, level, panicking,
                   pval, rval, h, calls, packets, status, snaps, registered>>

\* Capture(packet, nil)
Capture ==
    /\ pc = "capture"
    /\ packets' = Append(packets, NewPacket(level, rval, h))
    /\ pc' = "writeheader"
    /\ UNCHANGED <<conc, querySecretFields, req, arrived, chain, level, panicking,
                   pval, rval, h, calls, status, snaps, registered>>

\* w.WriteHeader(http.StatusInternalServerError)
WriteHeader ==
    /\ pc = "writeheader"
    /\ status' = Append(status, [layer |-> level, code |-> StatusInternalServerError])
    /\ pc' = "exit"
    /\ UNCHANGED <<conc, querySecretFields, req, arrived, chain, level, panicking,
                   pval, rval, h, calls, packets, snaps, registered>>

\* whether the deferred function of a wrapper ends in panic(rval)
Repanics(kind, v) == kind = "Report" /\ EntersPanicPath(v)

\* the value a wrapper hands to panic when it re-raises
Reraised(v) == v

\* the deferred function ends: RecoveryHandler returns, ReportHandler calls
\* panic(rval) on the panic path; control passes to the next wrapper outwards,
\* or to the server
Exit ==
    /\ pc = "exit"
    /\ LET again == Repanics(chain[level], rval)
           out   == IF again THEN Reraised(rval) ELSE Returned
       IN  /\ panicking' = again
           /\ pval' \in IF again THEN {Raise(out, legacy) : legacy \in BOOLEAN} ELSE {pval}
           /\ calls' = [l \in 1..Len(chain) |->
                          IF l = level THEN [calls[l] EXCEPT !.out = out]
                          ELSE IF l = level - 1 THEN [calls[l] EXCEPT !.arg = out]
                          ELSE calls[l]]
    /\ level' = level - 1
    /\ pc' = IF level > 1 THEN "recover" ELSE "done"
    /\ rval' = NilValue
    /\ h' = NoHttp
    /\ UNCHANGED <<conc, querySecretFields, req, arrived, chain, packets, status, snaps, registered>>

Next ==
    \/ \E field \in Fragments : AddSanitizeField(field)
    \/ DirectSnapshot
    \/ Serve
    \/ HandlerReturns
    \/ \E v \in PanicArgs, legacy \in BOOLEAN : HandlerPanics(v, legacy)
    \/ Recover
    \/ Snapshot
    \/ Capture
    \/ WriteHeader
    \/ Exit

Spec == Init /\ [][Next]_vars

\* ------------------------------------------------- a reporting call that panics

\* the error value a failing Capture panics with
CaptureError == Value("error", 0, <<"c","l","o","s","e","d">>)

\* Capture(packet, nil) panics instead of returning: the deferred function has
\* no recover of its own around the call, so it ends there and the new panic
\* leaves the wrapper; WriteHeader and panic(rval) are not reached
CapturePanics ==
    /\ pc = "capture"
    /\ panicking' = TRUE
    /\ pval' = CaptureError
    /\ calls' = [l \in 1..Len(chain) |->
                   IF l = level THEN [calls[l] EXCEPT !.out = CaptureError]
                   ELSE IF l = level - 1 THEN [calls[l] EXCEPT !.arg = CaptureError]
                   ELSE calls[l]]
    /\ level' = level - 1
    /\ pc' = IF level > 1 THEN "recover" ELSE "done"
    /\ UNCHANGED <<conc, querySecretFields, req, arrived, chain, rval, h, packets,
                   status, snaps, registered>>

NextFail ==
    \/ Next
    \/ CapturePanics

SpecFail == Init /\ [][NextFail]_vars

\* ------------------------------------- goroutines racing on querySecretFields

\* AddSanitizeField on goroutine w loads the slice header of querySecretFields
RegLoad(w) ==
    /\ conc.unit[w].pc = "start"
    /\ conc' = [conc EXCEPT !.unit[w].pc = "loaded", !.unit[w].hd = conc.hdr]
    /\ UNCHANGED <<querySecretFields, req, arrived, chain, pc, level, panicking,
                   pval, rval, h, calls, packets, status, snaps, registered>>

\* append(querySecretFields, field) on the header w loaded: with room left it
\* writes the next slot of the same backing array (a slot past the allocation
\* is not memory of the slice), otherwise it copies len entries into a new
\* array of twice the capacity and writes the field behind them
RegAppend(w) ==
    /\ conc.unit[w].pc = "loaded"
    /\ LET hd      == conc.unit[w].hd
           inplace == hd.len < hd.cap
           grown   == [i \in 1..GrowCap(hd.cap) |->
                          IF i <= hd.len THEN Cell(conc.arrays, hd.ptr, i)
                          ELSE IF i = hd.len + 1 THEN UnitField[w]
                          ELSE <<>>]
           arrays  == IF ~inplace THEN Append(conc.arrays, grown)
                      ELSE IF hd.len + 1 <= Len(conc.arrays[hd.ptr])
                      THEN [conc.arrays EXCEPT ![hd.ptr][hd.len + 1] = UnitField[w]]
                      ELSE conc.arrays
           new     == IF inplace THEN [hd EXCEPT !.len = hd.len + 1]
                      ELSE [ptr |-> Len(conc.arrays) + 1, len |-> hd.len + 1,
                            cap |-> GrowCap(hd.cap)]
       IN  /\ conc' = [conc EXCEPT !.arrays = arrays,
                                   !.unit[w].pc = "storing",
                                   !.unit[w].new = new,
                                   !.unit[w].pending = HeaderWords]
           /\ querySecretFields' = View(arrays, conc.hdr)
    /\ UNCHANGED <<req, arrived, chain, pc, level, panicking, pval, rval, h,
                   calls, packets, status, snaps, registered>>

\* the assignment querySecretFields = ... stores the three words of the new
\* header one at a time, in an order the build chooses, with no lock held
RegStoreWord(w, word) ==
    /\ conc.unit[w].pc = "storing"
    /\ word \in conc.unit[w].pending
    /\ LET hdr == [conc.hdr EXCEPT ![word] = conc.unit[w].new[word]]
       IN  /\ conc' = [conc EXCEPT !.hdr = hdr,
                                   !.unit[w].pending = conc.unit[w].pending \ {word}]
           /\ querySecretFields' = View(conc.arrays, hdr)
    /\ UNCHANGED <<req, arrived, chain, pc, level, panicking, pval, rval, h,
                   calls, packets, status, snaps, registered>>

\* AddSanitizeField returns on goroutine w
RegReturn(w) ==
    /\ conc.unit[w].pc = "storing"
    /\ conc.unit[w].pending = {}
    /\ conc' = [conc EXCEPT !.unit[w].pc = "done"]
    /\ registered' = Append(registered, UnitField[w])
    /\ UNCHANGED <<querySecretFields, req, arrived, chain, pc, level, panicking,
                   pval, rval, h, calls, packets, status, snaps>>

\* NewHttp(req) starts on a third goroutine: sanitizeValues(req.URL.Query())
\* evaluates the range expression querySecretFields once, line 38
ScanBegin ==
    /\ conc.scan.pc = "start"
    /\ conc' = [conc EXCEPT !.scan = [pc |-> "scan", k |-> 1, i |-> 1, hd |-> conc.hdr,
                                      seen |-> <<<<>>, <<>>>>,
                                      must |-> {registered[j] : j \in 1..Len(registered)}]]
    /\ UNCHANGED <<querySecretFields, req, arrived, chain, pc, level, panicking,
                   pval, rval, h, calls, packets, status, snaps, registered>>

\* one iteration of the range loop: the keyword is read from the backing array
ScanStep ==
    /\ conc.scan.pc = "scan"
    /\ conc.scan.i <= conc.scan.hd.len
    /\ conc' = [conc EXCEPT
                   !.scan.seen[conc.scan.k] =
                       Append(@, Cell(conc.arrays, conc.scan.hd.ptr, conc.scan.i)),
                   !.scan.i = @ + 1]
    /\ UNCHANGED <<querySecretFields, req, arrived, chain, pc, level, panicking,
                   pval, rval, h, calls, packets, status, snaps, registered>>

\* the first sanitizeValues call is over; sanitizeValues(req.Header), line 29,
\* evaluates querySecretFields again
ScanNext ==
    /\ conc.scan.pc = "scan"
    /\ conc.scan.i > conc.scan.hd.len
    /\ conc.scan.k = 1
    /\ conc' = [conc EXCEPT !.scan.k = 2, !.scan.i = 1, !.scan.hd = conc.hdr]
    /\ UNCHANGED <<querySecretFields, req, arrived, chain, pc, level, panicking,
                   pval, rval, h, calls, packets, status, snaps, registered>>

\* NewHttp returns the Http built with the keywords the two loops compared
ScanEnd ==
    /\ conc.scan.pc = "scan"
    /\ conc.scan.i > conc.scan.hd.len
    /\ conc.scan.k = 2
    /\ conc' = [conc EXCEPT !.scan.pc = "done"]
    /\ \E out \in {NewHttpScans(req, conc.scan.seen[1], conc.scan.seen[2])} :
           /\ req' = out.req
           /\ snaps' = Append(snaps, Snap(0, req, conc.scan.seen[2], out))
    /\ UNCHANGED <<querySecretFields, arrived, chain, pc, level, panicking,
                   pval, rval, h, calls, packets, status, registered>>

\* a program with nothing else going on: one request, no wrapper running
InitConc ==
    /\ Init
    /\ req = Request(MethodGet, FALSE, HeaderPlain, <<"q","=","1">>, <<"1",".","2",":","8","0">>)
    /\ chain = <<"Recovery">>

NextConc ==
    \/ \E w \in ConcUnits : RegLoad(w)
    \/ \E w \in ConcUnits : RegAppend(w)
    \/ \E w \in ConcUnits, word \in HeaderWords : RegStoreWord(w, word)
    \/ \E w \in ConcUnits : RegReturn(w)
    \/ ScanBegin
    \/ ScanStep
    \/ ScanNext
    \/ ScanEnd

SpecConc == InitConc /\ [][NextConc]_vars

\* ------------------------------------------------------------------ claims

\* the wrapped handler of wrapper l ended in a panic
IsPanic(v) == v.kind \notin {"pending", "returned"}

\* the packets wrapper l handed to Capture, the WriteHeader calls it made
PacketsOf(l) == {i \in 1..Len(packets) : packets[i].layer = l}
StatusOf(l) == {i \in 1..Len(status) : status[i].layer = l}

\* wrapper l has ended
Finished(l) == calls[l].out # Pending

(* C1: when the handler a RecoveryHandler wraps panics with a value v, the
   wrapped call returns normally, exactly one packet is submitted and its
   message is the stringified v, and exactly one status, a 5xx one, is
   written by this wrapper. *)
C1_SuppressAndReport ==
    \A l \in 1..Len(chain) :
        (chain[l] = "Recovery" /\ IsPanic(calls[l].arg) /\ Finished(l)) =>
            /\ calls[l].out = Returned
            /\ Cardinality(PacketsOf(l)) = 1
            /\ \A i \in PacketsOf(l) : packets[i].Message = Sprint(calls[l].arg)
            /\ Cardinality(StatusOf(l)) = 1
            /\ \A i \in StatusOf(l) : status[i].code \in 500..599

(* C2: when the handler a ReportHandler wraps panics with a value v, the
   wrapped call submits exactly one packet and ends in a panic whose value
   is v itself. *)
C2_ReportAndRepropagate ==
    \A l \in 1..Len(chain) :
        (chain[l] = "Report" /\ IsPanic(calls[l].arg) /\ Finished(l)) =>
            /\ Cardinality(PacketsOf(l)) = 1
            /\ calls[l].out = calls[l].arg

(* C3: in both wrappers, a wrapped handler that returns without panicking
   causes no packet and no status write by the wrapper, and the wrapper
   returns normally. *)
C3_NoPanicNoEffect ==
    \A l \in 1..Len(chain) :
        calls[l].arg = Returned =>
            /\ PacketsOf(l) = {}
            /\ StatusOf(l) = {}
            /\ calls[l].out \in {Pending, Returned}

\* a ReportHandler inside a RecoveryHandler, both ended after a handler that returned
C3_Witness ==
    /\ chain = <<"Recovery", "Report">>
    /\ pc = "done"
    /\ \A l \in 1..Len(chain) : calls[l].arg = Returned /\ calls[l].out = Returned
    /\ packets = <<>> /\ status = <<>>

(* C4: whatever value the handler panics with, nil included, the wrapper
   enters its panic path: it submits a packet and writes the 500 status, and
   a ReportHandler ends in a panic again. *)
C4_EveryPanicReported ==
    \A l \in 1..Len(chain) :
        (IsPanic(calls[l].arg) /\ Finished(l)) =>
            /\ PacketsOf(l) # {}
            /\ \E i \in StatusOf(l) : status[i].code = 500
            /\ chain[l] = "Report" => IsPanic(calls[l].out)

\* t occurs in s as a substring
IsSubstring(t, s) ==
    \E i \in 1..(Len(s) - Len(t) + 1) : SubSeq(s, i, i + Len(t) - 1) = t

\* the elements of a sequence
Range(seq) == {seq[i] : i \in 1..Len(seq)}

(* C5: NewHttp has no side effect on the request: after every NewHttp call
   the request's header map and its query parameters hold the keys and
   value lists they held before the call. *)
C5_RequestUntouched ==
    \A i \in 1..Len(snaps) :
        /\ snaps[i].after.Header = snaps[i].before.Header
        /\ Query(snaps[i].after.RawQuery) = Query(snaps[i].before.RawQuery)

(* C6: cookies are never redacted: the Cookies field of every Http NewHttp
   returns is the raw Cookie header value the request carried when it
   arrived, whatever was registered and however many snapshots were taken
   of the request before. *)
C6_CookiesVerbatim ==
    \A i \in 1..Len(snaps) : snaps[i].h.Cookies = Get(arrived.Header, CookieKey)

\* the two sanitizeValues calls of NewHttp call i: the map given and the map returned
SanitizeCalls(i) ==
    { [in |-> snaps[i].before.Header, out |-> snaps[i].after.Header],
      [in |-> Query(snaps[i].before.RawQuery), out |-> snaps[i].query] }

\* the lowercase form of key contains a registered fragment, compared without case
KeyHasFragment(key, fields) ==
    \E f \in Range(fields) : IsSubstring(ToLower(f), ToLower(key))

(* C7: sanitizeValues returns a map with the same keys in which every key
   whose lowercase form contains a registered fragment holds exactly
   ["********"] and every other key keeps its value list.  Stated of the two
   sanitizeValues calls of the NewHttp call made last: every call is the
   last one in the state it leads to. *)
C7_RedactionResult ==
    \A i \in {Len(snaps)} \ {0} : \A c \in SanitizeCalls(i) :
        /\ DOMAIN c.out = DOMAIN c.in
        /\ \A key \in DOMAIN c.in :
              c.out[key] = IF KeyHasFragment(key, snaps[i].fields)
                           THEN <<Stars>> ELSE c.in[key]

\* PASSWORD with two values and UserPassphrase redacted whole, q and token kept
C7_Witness ==
    \E i \in 1..Len(snaps) :
        LET in == Query(snaps[i].before.RawQuery)
            out == snaps[i].query
        IN  /\ <<"P","A","S","S","W","O","R","D">> \in DOMAIN in
            /\ Len(in[<<"P","A","S","S","W","O","R","D">>]) = 2
            /\ out[<<"P","A","S","S","W","O","R","D">>] = <<Stars>>
            /\ out[<<"U","s","e","r","P","a","s","s","p","h","r","a","s","e">>] = <<Stars>>
            /\ out[<<"q">>] = << <<"1">> >>
            /\ out[<<"t","o","k","e","n">>] = << <<"z">> >>

\* sanitizeValues redacts key under the rule set fields
Redacts(fields, key) ==
    sanitizeValues([k \in {key} |-> << <<"v">> >>], fields)[key] = <<Stars>>

\* keys and fragments in several spellings
KeySpellings ==
    { <<"P","A","S","S","W","O","R","D">>, <<"P","a","s","s","w","o","r","d">>,
      <<"U","s","e","r","P","a","s","s","p","h","r","a","s","e">>,
      <<"C","o","o","k","i","e">>, <<"m","y","-","C","O","O","K","I","E">>,
      <<"X","-","A","p","i","-","K","e","y">>, <<"x","-","p","r","o","t","o">>,
      <<"q">> }

FragmentSpellings ==
    { <<"C","O","O","K","I","E">>, <<"C","o","o","k","i","e">>,
      <<"K","e","y">>, <<"S","E","C","R","E","T">> }

\* under the rule set fields, a key is redacted exactly when its lowercase
\* spelling is, and registering a fragment redacts the keys that registering
\* its lowercase spelling redacts
CaseBlind(fields) ==
    /\ \A k \in KeySpellings : Redacts(fields, k) = Redacts(fields, ToLower(k))
    /\ \A f \in FragmentSpellings : \A k \in KeySpellings :
          Redacts(AppendField(fields, f), k) = Redacts(AppendField(fields, ToLower(f)), k)

(* C8: matching is case-insensitive in both directions: under every rule
   set the program builds, changing the letter case of a key or of a
   registered fragment does not change which keys are redacted; and every
   header whose name is a registered fragment in another letter case is
   redacted by a snapshot. *)
C8_CaseInsensitive ==
    /\ CaseBlind(querySecretFields)
    /\ [][querySecretFields' # querySecretFields => CaseBlind(querySecretFields')]_vars
    /\ [][snaps' # snaps =>
            LET c == snaps'[Len(snaps')]
            IN  \A key \in DOMAIN c.before.Header :
                    (\E f \in Range(c.fields) : ToLower(f) = ToLower(key))
                        => c.after.Header[key] = <<Stars>>]_vars

\* COOKIE was registered in capitals and a snapshot redacted the header Cookie
C8_Witness ==
    \E i \in 1..Len(snaps) :
        /\ <<"C","O","O","K","I","E">> \in Range(snaps[i].fields)
        /\ CookieKey \in DOMAIN snaps[i].before.Header
        /\ snaps[i].before.Header[CookieKey] # <<Stars>>
        /\ snaps[i].after.Header[CookieKey] = <<Stars>>

\* the keys that contain a fragment registered so far are redacted
RegisteredRedacted(fields, regs) ==
    \A f \in Range(regs) : \A k \in KeySpellings \cup DOMAIN arrived.Header :
        IsSubstring(ToLower(f), ToLower(k)) => Redacts(fields, k)

(* C9: registration is monotonic: the rule set always holds the four seed
   fragments and every fragment registered so far, a step never removes an
   entry, a key that was redacted stays redacted, and every key containing
   a registered fragment (in any letter case) is redacted. *)
C9_RegistrationMonotonic ==
    /\ [](/\ Range(SeedFields) \subseteq Range(querySecretFields)
          /\ Range(registered) \subseteq Range(querySecretFields))
    /\ [][querySecretFields' # querySecretFields =>
            /\ Range(querySecretFields) \subseteq Range(querySecretFields')
            /\ \A k \in KeySpellings \cup DOMAIN arrived.Header :
                  Redacts(querySecretFields, k) => Redacts(querySecretFields', k)
            /\ RegisteredRedacted(querySecretFields', registered')]_vars

\* two registrations made, a snapshot taken after them redacted the header
\* that contains the second fragment
C9_Witness ==
    /\ Len(registered) = 2
    /\ registered[1] # registered[2]
    /\ \E i \in 1..Len(snaps) :
          /\ snaps[i].fields = SeedFields \o registered
          /\ \E k \in DOMAIN snaps[i].before.Header :
                /\ IsSubstring(ToLower(registered[2]), ToLower(k))
                /\ snaps[i].before.Header[k] # <<Stars>>
                /\ snaps[i].after.Header[k] = <<Stars>>

\* s begins with prefix
HasPrefix(s, prefix) == Len(s) >= Len(prefix) /\ SubSeq(s, 1, Len(prefix)) = prefix

(* C10: the url NewHttp records starts with "https" exactly when the request
   is TLS-terminated or its X-Forwarded-Proto header (the first value the
   request carries for it) equals "https", starts with "http" otherwise, and
   is scheme://host/path with nothing appended. *)
C10_SchemeSelection ==
    \A i \in 1..Len(snaps) :
        LET r      == snaps[i].before
            url    == snaps[i].h.URL
            secure == r.TLS \/ (/\ XForwardedProto \in DOMAIN r.Header
                                /\ Len(r.Header[XForwardedProto]) > 0
                                /\ r.Header[XForwardedProto][1] = Https)
        IN  /\ HasPrefix(url, Https) <=> secure
            /\ HasPrefix(url, Http)
            /\ url = (IF secure THEN Https ELSE Http) \o <<":","/","/">> \o r.Host \o r.Path

\* a request without TLS whose forwarded header says https got an https url,
\* and its query string is not part of the url
C10_Witness ==
    \E i \in 1..Len(snaps) :
        /\ ~snaps[i].before.TLS
        /\ snaps[i].before.RawQuery # <<>>
        /\ Get(snaps[i].before.Header, XForwardedProto) = Https
        /\ snaps[i].h.URL = <<"h","t","t","p","s",":","/","/","h",".","i","o","/","p">>

(* C11: once NewHttp has returned an Http, its Method and its URL are both
   non-empty, for every request NewHttp can be given. *)
C11_MethodAndUrlNonEmpty ==
    \A i \in 1..Len(snaps) :
        /\ Len(snaps[i].h.Method) > 0
        /\ Len(snaps[i].h.URL) > 0

\* no character of s is a colon or a bracket
NoColonOrBracket(s) == \A i \in 1..Len(s) : s[i] \notin {":", "[", "]"}

\* the <<host, port>> readings of a peer address of the form host:port or
\* [host]:port
HostPortReadings(addr) ==
    { <<IF addr[1] = "[" THEN SubSeq(addr, 2, i - 2) ELSE SubSeq(addr, 1, i - 1),
        SubSeq(addr, i + 1, Len(addr))>> :
        i \in { j \in 1..Len(addr) :
                  /\ addr[j] = ":"
                  /\ NoColonOrBracket(SubSeq(addr, j + 1, Len(addr)))
                  /\ IF addr[1] = "["
                     THEN /\ j >= 3
                          /\ addr[j - 1] = "]"
                          /\ \A k \in 2..(j - 2) : addr[k] \notin {"[", "]"}
                     ELSE NoColonOrBracket(SubSeq(addr, 1, j - 1)) } }

(* C12: when the peer address reads as host:port, Env holds exactly
   REMOTE_ADDR = host and REMOTE_PORT = port; when it does not, Env is absent
   and NewHttp still returns an Http whose other fields are filled in from the
   request. *)
C12_EnvPopulation ==
    \A i \in 1..Len(snaps) :
        LET r    == snaps[i].before
            e    == snaps[i].h.Env
            read == HostPortReadings(r.RemoteAddr)
        IN  /\ read # {} =>
                /\ DOMAIN e = {"REMOTE_ADDR", "REMOTE_PORT"}
                /\ <<e["REMOTE_ADDR"], e["REMOTE_PORT"]>> \in read
            /\ read = {} => e = NilEnv
            /\ snaps[i].h.Method = r.Method
            /\ HasPrefix(snaps[i].h.URL, Proto(r))
            /\ DOMAIN snaps[i].h.Headers = DOMAIN r.Header

\* a snapshot was taken of a request whose peer address has too many colons,
\* and it has no Env and the request's method, scheme and header names
C12_Witness ==
    \E i \in 1..Len(snaps) :
        /\ snaps[i].before.RemoteAddr = <<":",":","1",":","8","0">>
        /\ snaps[i].h.Env = NilEnv
        /\ snaps[i].h.Method = MethodGet
        /\ DOMAIN snaps[i].h.Headers # {}


\* the NewHttp calls wrapper l made
SnapsOf(l) == {i \in 1..Len(snaps) : snaps[i].who = l}

\* how many snapshots, packets and statuses wrapper l has produced
Produced(l) ==
    <<Cardinality(SnapsOf(l)), Cardinality(PacketsOf(l)), Cardinality(StatusOf(l))>>

(* C13: on the panic path of either wrapper the steps happen in this order
   and each at most once: the panic is caught, the request is snapshotted,
   the packet is submitted, the 500 status is written, and then the wrapper
   returns (RecoveryHandler) or re-raises (ReportHandler). A wrapper that took
   the panic path does not end without its packet submitted, and it writes no
   status before the submission. *)
C13_PanicPathOrder ==
    \A l \in 1..Len(chain) :
        LET n == Produced(l)
        IN  /\ n[3] <= n[2] /\ n[2] <= n[1] /\ n[1] <= 1
            /\ (l = level /\ pc = "snapshot") => n = <<0, 0, 0>> /\ IsPanic(rval)
            /\ (l = level /\ pc = "capture") => n = <<1, 0, 0>>
            /\ (l = level /\ pc = "writeheader") => n = <<1, 1, 0>>
            /\ (l = level /\ pc = "exit" /\ n # <<0, 0, 0>>) => n = <<1, 1, 1>>
            /\ (Finished(l) /\ (n # <<0, 0, 0>> \/ IsPanic(calls[l].out))) =>
                   /\ n = <<1, 1, 1>>
                   /\ IsPanic(calls[l].out) <=> chain[l] = "Report"
            /\ \A i \in PacketsOf(l) : \A j \in SnapsOf(l) : packets[i].Http = snaps[j].h

\* both wrappers of a chain have gone through the panic path and ended
C13_Witness ==
    /\ chain = <<"Recovery", "Report">>
    /\ pc = "done"
    /\ Produced(1) = <<1, 1, 1>> /\ calls[1].out = Returned
    /\ Produced(2) = <<1, 1, 1>> /\ IsPanic(calls[2].out)

(* C14: a failure of the reporting call inside the deferred function does not
   mask or replace the original panic: a wrapper that caught a panic v and
   went on to report it still ends as it would have, RecoveryHandler by
   returning normally and ReportHandler by re-raising v, whether or not
   Capture panicked, so no panic of the reporting call reaches the caller. *)
C14_ReportingFailureIsolated ==
    \A l \in 1..Len(chain) :
        (Finished(l) /\ SnapsOf(l) # {}) =>
            /\ chain[l] = "Recovery" => calls[l].out = Returned
            /\ chain[l] = "Report" =>
                   calls[l].out \in {Raise(calls[l].arg, legacy) : legacy \in BOOLEAN}

\* every goroutine's AddSanitizeField call has returned
AllRegistered == \A w \in ConcUnits : conc.unit[w].pc = "done"

(* C15: concurrent registrations lose nothing: once the AddSanitizeField calls
   of all goroutines have returned, querySecretFields holds the seeds and
   every fragment that was registered, and a NewHttp call that began after a
   registration returned redacts every header whose name contains that
   fragment. *)
C15_NoLostRegistration ==
    /\ AllRegistered =>
           Range(SeedFields) \cup Range(registered) \subseteq Range(querySecretFields)
    /\ conc.scan.pc = "done" =>
           \A f \in conc.scan.must : \A key \in DOMAIN arrived.Header :
               IsSubstring(ToLower(f), ToLower(key)) =>
                   snaps[Len(snaps)].h.Headers[key] = Stars

(* C16: a scan of querySecretFields that runs while a registration is under
   way is never corrupted: every keyword the range loop compares against is
   a seed or a fragment handed to AddSanitizeField, never anything else, and
   a finished loop has compared against every fragment whose registration
   had returned before the NewHttp call began. *)
C16_ScanNotCorrupted ==
    \A k \in 1..2 :
        /\ \A j \in 1..Len(conc.scan.seen[k]) :
               conc.scan.seen[k][j] \in
                   Range(SeedFields) \cup {UnitField[w] : w \in ConcUnits}
        /\ (conc.scan.pc = "done" \/ conc.scan.k > k) =>
               conc.scan.must \subseteq Range(conc.scan.seen[k])

(* C17: redaction never reaches url or env: whatever fragments are registered
   and however many NewHttp calls the request object has been through, the URL
   (scheme included) and the Env of the Http returned are the ones the request
   as it arrived yields with no redaction at all. *)
C17_UrlAndEnvUnredacted ==
    \A i \in 1..Len(snaps) :
        /\ snaps[i].h.URL = MakeURL(arrived)
        /\ snaps[i].h.Env = Env(arrived)

(* C18: a ReportHandler wrapped by a RecoveryHandler, the handler panicking
   with v: the outer wrapper observes a panic with the original value v, each
   of the two wrappers submits exactly one packet, both packets carry the
   stringified v as their message, and the outermost caller observes no
   panic. *)
C18_Composition ==
    (chain = <<"Recovery", "Report">> /\ pc = "done" /\ IsPanic(calls[2].arg)) =>
        /\ calls[1].arg = calls[2].arg
        /\ Cardinality(PacketsOf(1)) = 1
        /\ Cardinality(PacketsOf(2)) = 1
        /\ \A i \in 1..Len(packets) : packets[i].Message = Sprint(calls[2].arg)
        /\ calls[1].out = Returned
        /\ ~panicking

(* C19: redaction is idempotent under a fixed rule set: sanitizeValues applied
   to a map it has already redacted returns the same map, so the Headers and
   the Query of repeated NewHttp calls on one request are equal as long as no
   fragment is registered between the calls. *)
C19_RedactionIdempotent ==
    /\ \A i \in {Len(snaps)} \ {0} : \A c \in SanitizeCalls(i) :
           sanitizeValues(c.out, snaps[i].fields) = c.out
    /\ \A i, j \in 1..Len(snaps) :
           snaps[i].fields = snaps[j].fields =>
               /\ snaps[i].h.Headers = snaps[j].h.Headers
               /\ snaps[i].h.Query = snaps[j].h.Query

\* two NewHttp calls under one rule set, the first of which redacted a header
\* and a query parameter of the request, the second of which was given the
\* request the first left behind
C19_Witness ==
    \E i, j \in 1..Len(snaps) :
        /\ i < j
        /\ snaps[i].fields = snaps[j].fields
        /\ snaps[i].before.Header # snaps[i].after.Header
        /\ snaps[i].query # Query(snaps[i].before.RawQuery)
        /\ snaps[j].before = snaps[i].after
        /\ snaps[j].h.Headers = snaps[i].h.Headers

====
